---- MODULE Spec2Model ----
(***************************************************************************)
(* Model of package cli (pnelson/cli-reflection): an application holds a   *)
(* map of rules; Rule validates a command's Run method by reflection and   *)
(* stores a rule; Run parses the command line, binds the leftover tokens   *)
(* to the parameters of Run, calls it and exits; printUsage renders the    *)
(* rules and their flags.                                                  *)
(*                                                                         *)
(* Text that is only measured or concatenated (names, usage arguments) is  *)
(* a TLA+ string.  Text whose characters the code inspects (a flag's name, *)
(* default value and rendered option) is a sequence of one-character       *)
(* strings.                                                                *)
(***************************************************************************)
EXTENDS Integers, Sequences, FiniteSets, TLC

VARIABLES
    rules,      \* application.rules: map from name to rule
    err,        \* the error returned by the most recent call of Rule
    lastCall,   \* the arguments of the most recent call of Rule
    nRules,     \* number of calls of Rule made after New
    pc,         \* "building" | "exited" | "panicked"
    argv,       \* the command line Run was given
    params,     \* the []reflect.Value Run prepared (index 0 is the receiver)
    calls,      \* invocations of a Run method: <<[name, params, rv]>>
    stderr,     \* what was written to os.Stderr, in order
    stdout,     \* what was written to os.Stdout, in order
    exits       \* the codes os.Exit was called with, in order

vars == <<rules, err, lastCall, nRules, pc, argv, params, calls, stderr, stdout, exits>>

----------------------------------------------------------------------------
(* Bounds of the model. *)

MaxRules == 2       \* calls of Rule after New, in Spec
MaxParams == 3      \* parameters of a generated Run signature
MaxOut == 2         \* results of a generated Run signature
MaxArgs == 4        \* leftover positional tokens given to Run

----------------------------------------------------------------------------
(* Generic helpers. *)

SeqsUpTo(S, n) == UNION {[1..k -> S] : k \in 0..n}

----------------------------------------------------------------------------
(* reflect: the types a Run method may mention, their Kind and Elem. *)

ParamTypes == {"string", "[]string", "int", "[]int"}
OutTypes == {"int", "string"}

Kind(t) ==
    CASE t = "string" -> "String"
      [] t = "int" -> "Int"
      [] t = "[]string" -> "Slice"
      [] t = "[]int" -> "Slice"
      [] OTHER -> "Invalid"

Elem(t) ==
    CASE t = "[]string" -> "string"
      [] t = "[]int" -> "int"
      [] OTHER -> "none"

\* method.Type.NumIn(): the receiver counts as parameter 0.
NumIn(command) == Len(command.in) + 1

\* method.Type.In(i) for i >= 1.
In(command, i) == command.in[i]

NumOut(command) == Len(command.out)

\* method.Type.Out(i), 0-indexed as in the code.
Out(command, i) == command.out[i + 1]

----------------------------------------------------------------------------
(* package flag: the definitions a command makes in its Flags method.      *)
(* A flag.Flag carries Name, Usage and DefValue, the default formatted as  *)
(* text.                                                                   *)

Digits == <<"0", "1", "2", "3", "4", "5", "6", "7", "8", "9">>

RECURSIVE FormatUint(_)
FormatUint(n) ==
    IF n < 10 THEN <<Digits[n + 1]>>
    ELSE FormatUint(n \div 10) \o <<Digits[(n % 10) + 1]>>

\* strconv.Itoa, as flags.Int formats its default.
Itoa(n) == IF n < 0 THEN <<"-">> \o FormatUint(-n) ELSE FormatUint(n)

\* strconv.FormatBool, as flags.Bool formats its default.
FormatBool(b) == IF b THEN <<"t", "r", "u", "e">> ELSE <<"f", "a", "l", "s", "e">>

BoolFlag(name, value, usage) ==
    [Name |-> name, kind |-> "bool", DefValue |-> FormatBool(value), Usage |-> usage]

IntFlag(name, value, usage) ==
    [Name |-> name, kind |-> "int", DefValue |-> Itoa(value), Usage |-> usage]

StringFlag(name, value, usage) ==
    [Name |-> name, kind |-> "string", DefValue |-> value, Usage |-> usage]

IsDigit(c) == \E i \in 1..10 : Digits[i] = c

\* strconv.Atoi(value) returns no error: an optional sign, then digits only.
AtoiOK(value) ==
    LET body == IF Len(value) > 0 /\ value[1] \in {"+", "-"}
                THEN SubSeq(value, 2, Len(value))
                ELSE value
    IN  Len(body) > 0 /\ \A i \in 1..Len(body) : IsDigit(body[i])

----------------------------------------------------------------------------
(* Commands: values that implement the command interface.  A command is    *)
(* described by what reflection and the framework can see of it: whether   *)
(* it has a Run method, the types of Run's parameters (after the receiver) *)
(* and results, the flags its Flags method defines, and its String().      *)

Command(id, hasRun, in, out, flags, string) ==
    [id |-> id, hasRun |-> hasRun, in |-> in, out |-> out,
     flags |-> flags, String |-> string]

AppName == "myapp"
AppVersion == "0.0.1"

commandHelp ==
    Command("commandHelp", TRUE, <<>>, <<>>, {}, "Output this usage information.")

commandVersion ==
    Command("commandVersion", TRUE, <<>>, <<>>, {}, "Output the application version.")

runFull ==
    Command("runFull", TRUE, <<"string", "string", "[]string">>, <<"int">>,
            {IntFlag(<<"n", "u", "m", "b", "e", "r">>, 0, "some number")},
            "runFull help")

runErrMissing ==
    Command("runErrMissing", FALSE, <<>>, <<>>, {}, "missing run method")

runErrString ==
    Command("runErrString", TRUE, <<"int">>, <<>>, {}, "invalid param type")

runErrReturnValue ==
    Command("runErrReturnValue", TRUE, <<>>, <<"string">>, {}, "invalid return value")

\* The add command of the package documentation.
add ==
    Command("add", TRUE, <<"string", "string", "[]string">>, <<>>,
            {BoolFlag(<<"s", "h", "o", "w", "-", "e", "x", "t", "r", "a">>, FALSE,
                      "Print extra arguments."),
             StringFlag(<<"e", "x", "a", "m", "p", "l", "e">>, <<>>,
                        "An example string option."),
             IntFlag(<<"n", "u", "m", "b", "e", "r">>, 0, "An example int option.")},
            "Add record key with username.")

\* A command whose Run accepts one string, as the documentation of Rule allows.
get ==
    Command("get", TRUE, <<"string">>, <<"int">>, {}, "Get record by key.")

\* A command with a boolean flag that defaults to true and a string flag whose
\* default reads as a boolean.
serve ==
    Command("serve", TRUE, <<>>, <<"int">>,
            {BoolFlag(<<"c", "o", "l", "o", "r">>, TRUE, "Colorize output."),
             StringFlag(<<"t", "l", "s">>, <<"f", "a", "l", "s", "e">>, "TLS mode.")},
            "Serve records.")

\* The commands registered in Spec.
Commands == {runFull, runErrString, add, get, serve}

\* Every Run signature within the bounds and the failing commands of the
\* tests; these commands embed NullFlags.
SigCommands ==
    {Command("sig", TRUE, in, out, {}, "generated")
        : in \in SeqsUpTo(ParamTypes, MaxParams), out \in SeqsUpTo(OutTypes, MaxOut)}
    \cup {runErrMissing, runErrString, runErrReturnValue}

Names == {"help", "version", "add"}

Arguments == {"", "<key> <username> [<extra>]"}

----------------------------------------------------------------------------
(* application.Rule *)

\* The loop over all parameters but the last: each must be of kind String.
LeadingAreStrings(command) ==
    \A i \in 1..(NumIn(command) - 2) : Kind(In(command, i)) = "String"

\* SliceOf with the test for a last parameter off by one.
BadSliceOf(command) ==
    /\ NumIn(command) > 2
    /\ Kind(In(command, NumIn(command) - 1)) = "Slice"
    /\ Kind(Elem(In(command, NumIn(command) - 1))) = "String"

\* Whether the last parameter is a slice of strings.
SliceOf(command) ==
    /\ NumIn(command) > 1
    /\ Kind(In(command, NumIn(command) - 1)) = "Slice"
    /\ Kind(Elem(In(command, NumIn(command) - 1))) = "String"

\* The last parameter is a string slice or a string.
FinalOK(command) ==
    NumIn(command) > 1 =>
        \/ SliceOf(command)
        \/ Kind(In(command, NumIn(command) - 1)) = "String"

\* The first return value, if any, is an int.
ReturnOK(command) ==
    ~(NumOut(command) >= 1 /\ Kind(Out(command, 0)) # "Int")

\* RuleErr with the return value checked before the parameters.
BadRuleErrReturnFirst(command) ==
    IF ~command.hasRun THEN "errRunMissing"
    ELSE IF ~ReturnOK(command) THEN "errRunReturnValue"
    ELSE IF ~LeadingAreStrings(command) THEN "errRunString"
    ELSE IF ~FinalOK(command) THEN "errRunString"
    ELSE "nil"

\* The error Rule returns, in the order the code checks.
RuleErr(command) ==
    IF ~command.hasRun THEN "errRunMissing"
    ELSE IF ~LeadingAreStrings(command) THEN "errRunString"
    ELSE IF ~FinalOK(command) THEN "errRunString"
    ELSE IF ~ReturnOK(command) THEN "errRunReturnValue"
    ELSE "nil"

\* The rule Rule builds: options holds the flags command.Flags defined.
NewRule(command, name, arguments) ==
    [command |-> command,
     method |-> [in |-> command.in, out |-> command.out],
     slice |-> SliceOf(command),
     name |-> name,
     options |-> command.flags,
     arguments |-> arguments]

\* StoreRule that keeps a rule already stored under the name.
BadStoreKeepFirst(rs, name, r) ==
    [n \in DOMAIN rs \cup {name} |-> IF n \in DOMAIN rs THEN rs[n] ELSE r]

\* a.rules[name] = &rule{...}
StoreRule(rs, name, r) ==
    [n \in DOMAIN rs \cup {name} |-> IF n = name THEN r ELSE rs[n]]

\* The rules map after Rule(command, name, arguments) on a map rs.
RuleApply(rs, command, name, arguments) ==
    IF RuleErr(command) = "nil"
    THEN StoreRule(rs, name, NewRule(command, name, arguments))
    ELSE rs

EmptyRules == [n \in {} |-> n]

\* NewRules without the version command.
BadNewHelpOnly == RuleApply(EmptyRules, commandHelp, "help", "")

\* The rules map New leaves: help and version registered on an empty map.
NewRules ==
    RuleApply(RuleApply(EmptyRules, commandHelp, "help", ""),
              commandVersion, "version", "")

----------------------------------------------------------------------------
(* Usage printing: rule.String, getRuleLength, printUsage. *)

\* rule.String(): the name, " [options]" when the rule has flags, and the
\* usage arguments when not empty.
RuleString(r) ==
    LET command == r.name
        withOptions == IF r.options # {} THEN command \o " [options]" ELSE command
    IN  IF Len(r.arguments) > 0 THEN withOptions \o " " \o r.arguments
        ELSE withOptions

RECURSIVE MaxOf(_)
MaxOf(S) ==
    IF S = {} THEN 0
    ELSE LET x == CHOOSE y \in S : TRUE
             m == MaxOf(S \ {x})
         IN  IF x > m THEN x ELSE m

\* getRuleLength(): the longest rule.String() plus 3.
getRuleLength(rs) == MaxOf({Len(RuleString(rs[n])) : n \in DOMAIN rs}) + 3

\* The value printUsage shows for a flag, chosen from its DefValue.
Placeholder(flag) ==
    LET value == flag.DefValue
    IN  IF value = <<>> THEN <<"<", "v", "a", "l", "u", "e", ">">>
        ELSE IF value = <<"f", "a", "l", "s", "e">> THEN <<>>
        ELSE IF AtoiOK(value) THEN <<"<", "n", ">">>
        ELSE <<"\"">> \o value \o <<"\"">>

\* option: "-" + flag.Name, then "=" + value when value is not empty.
Option(flag) ==
    LET value == Placeholder(flag)
    IN  IF value # <<>> THEN <<"-">> \o flag.Name \o <<"=">> \o value
        ELSE <<"-">> \o flag.Name

\* The count given to strings.Repeat for the line of a rule.
RuleSpaces(rs, r) == getRuleLength(rs) - Len(RuleString(r))

\* The count given to strings.Repeat for the line of a flag.
FlagSpaces(rs, flag) == getRuleLength(rs) - Len(Option(flag)) - 2

\* strings.Repeat panics on a negative count.
UsagePanics(rs) ==
    \E n \in DOMAIN rs :
        \/ RuleSpaces(rs, rs[n]) < 0
        \/ \E flag \in rs[n].options : FlagSpaces(rs, flag) < 0

\* The lines printUsage writes after the header; the order of the rules is
\* the map's and is left open.
UsageLines(rs) ==
    {[rule |-> n, option |-> <<>>, text |-> RuleString(rs[n]),
      spaces |-> RuleSpaces(rs, rs[n]), help |-> rs[n].command.String]
        : n \in DOMAIN rs}
    \cup UNION {{[rule |-> n, option |-> Option(flag), text |-> "",
                  spaces |-> FlagSpaces(rs, flag), help |-> flag.Usage]
                    : flag \in rs[n].options} : n \in DOMAIN rs}

UsageEvent(rs) == [kind |-> "usage", name |-> AppName, lines |-> UsageLines(rs)]

ErrorEvent(name) == [kind |-> "invalid command", name |-> name, lines |-> {}]

FlagErrorEvent(name) == [kind |-> "flag error", name |-> name, lines |-> {}]

VersionLine == AppName \o " v" \o AppVersion

----------------------------------------------------------------------------
(* application.Run: binding the leftover tokens to the parameters of Run.  *)
(* A reflect.Value is a record; Invalid is the zero Value that make leaves *)
(* in every slot of params.                                                *)

Invalid == [kind |-> "Invalid", str |-> "", list |-> <<>>]

StringValue(s) == [kind |-> "String", str |-> s, list |-> <<>>]

SliceValue(l) == [kind |-> "Slice", str |-> "", list |-> l]

Receiver(command) == [kind |-> "Ptr", str |-> command.id, list |-> <<>>]

\* params := make([]reflect.Value, NumIn); params[0] = the receiver.
MakeParams(r) ==
    [k \in 0..(NumIn(r.method) - 1) |-> IF k = 0 THEN Receiver(r.command) ELSE Invalid]

\* The loop that sets all but the last parameter: the token at the
\* parameter's position, or the empty string.
SetLeading(ps, args) ==
    LET n == Cardinality(DOMAIN ps)
    IN  [k \in DOMAIN ps |->
            IF 1 <= k /\ k < n - 1
            THEN IF k < Len(args) + 1 THEN StringValue(args[k]) ELSE StringValue("")
            ELSE ps[k]]

\* for j < len(args): append args[j] (args is 0-indexed in the code).
RECURSIVE AppendArgs(_, _, _)
AppendArgs(acc, args, j) ==
    IF j < Len(args) THEN AppendArgs(Append(acc, args[j + 1]), args, j + 1)
    ELSE acc

\* SetFinal whose slice starts one token late.
BadSetFinal(r, ps, args) ==
    LET i == Cardinality(DOMAIN ps) - 1
    IN  IF r.slice
        THEN [ps EXCEPT ![i] = SliceValue(AppendArgs(<<>>, args, i))]
        ELSE IF i > 1
        THEN [ps EXCEPT ![i] = IF i < Len(args) + 1 THEN StringValue(args[i])
                               ELSE StringValue("")]
        ELSE ps

\* The final parameter: the remaining tokens when the rule takes a slice;
\* otherwise a token or the empty string, but only when i > 1.
SetFinal(r, ps, args) ==
    LET i == Cardinality(DOMAIN ps) - 1
    IN  IF r.slice
        THEN [ps EXCEPT ![i] = SliceValue(AppendArgs(<<>>, args, i - 1))]
        ELSE IF i > 1
        THEN [ps EXCEPT ![i] = IF i < Len(args) + 1 THEN StringValue(args[i])
                               ELSE StringValue("")]
        ELSE ps

PrepareParams(r, args) == SetFinal(r, SetLeading(MakeParams(r), args), args)

\* reflect's Call panics when given a zero Value.
CallPanics(ps) == \E k \in DOMAIN ps : ps[k] = Invalid

NoParams == [k \in {} |-> Invalid]

Exited(code, ps, cs, errOut, out) ==
    [pc |-> "exited", params |-> ps, calls |-> cs, stderr |-> errOut,
     stdout |-> out, exits |-> <<code>>]

\* A panic ends the process without a call of os.Exit.
Panicked(ps, cs, errOut, out) ==
    [pc |-> "panicked", params |-> ps, calls |-> cs, stderr |-> errOut,
     stdout |-> out, exits |-> <<>>]

\* a.usage() followed by os.Exit(code), after errOut was written.
UsageThenExit(rs, code, errOut) ==
    IF UsagePanics(rs)
    THEN Panicked(NoParams, <<>>, errOut, <<>>)
    ELSE Exited(code, NoParams, <<>>, Append(errOut, UsageEvent(rs)), <<>>)

\* The call of the command's Run method and the exit that follows: help
\* prints the usage, version prints a line, any other method returns its
\* results, of which the first is result.
Dispatch(rs, r, ps, result) ==
    LET rv == [i \in 1..NumOut(r.method) |-> IF i = 1 THEN result ELSE 0]
        call == [name |-> r.name, command |-> r.command.id, params |-> ps, rv |-> rv]
        code == IF Len(rv) > 0 THEN rv[1] ELSE 0
    IN  IF r.command.id = "commandHelp"
        THEN IF UsagePanics(rs)
             THEN Panicked(ps, <<call>>, <<>>, <<>>)
             ELSE Exited(code, ps, <<call>>, <<UsageEvent(rs)>>, <<>>)
        ELSE IF r.command.id = "commandVersion"
        THEN Exited(code, ps, <<call>>, <<>>, <<VersionLine>>)
        ELSE Exited(code, ps, <<call>>, <<>>, <<>>)

\* Run on a command line a: a.cmd is empty or holds the command token,
\* a.parseOK tells whether the rule's FlagSet accepts the tokens after it
\* (the FlagSet exits with 2 otherwise), a.args are the tokens left over.
RunOutcome(rs, a, result) ==
    IF Len(a.cmd) < 1 THEN UsageThenExit(rs, 1, <<>>)
    ELSE IF a.cmd[1] \notin DOMAIN rs
    THEN UsageThenExit(rs, 1, <<ErrorEvent(a.cmd[1])>>)
    ELSE IF ~a.parseOK
    THEN Exited(2, NoParams, <<>>, <<FlagErrorEvent(a.cmd[1])>>, <<>>)
    ELSE LET r == rs[a.cmd[1]]
             ps == PrepareParams(r, a.args)
         IN  IF CallPanics(ps) THEN Panicked(ps, <<>>, <<>>, <<>>)
             ELSE Dispatch(rs, r, ps, result)

----------------------------------------------------------------------------
(* Inputs. *)

Tokens == <<"bob", "smith", "x", "y", "z", "u", "v", "w">>

Args == {SubSeq(Tokens, 1, m) : m \in 0..MaxArgs}

\* The command lines: none, a command whose flags do not parse, a command
\* with leftover tokens.
Argvs ==
    {[cmd |-> <<>>, parseOK |-> TRUE, args |-> <<>>]}
    \cup {[cmd |-> <<n>>, parseOK |-> FALSE, args |-> <<>>]
              : n \in Names \cup {"frobnicate"}}
    \cup {[cmd |-> <<n>>, parseOK |-> TRUE, args |-> args]
              : n \in Names \cup {"frobnicate"}, args \in Args}

\* The command lines of SpecSig, where the one registered name is add.
SigArgvs ==
    {[cmd |-> <<>>, parseOK |-> TRUE, args |-> <<>>],
     [cmd |-> <<"add">>, parseOK |-> FALSE, args |-> <<>>]}
    \cup {[cmd |-> <<"add">>, parseOK |-> TRUE, args |-> args] : args \in Args}

\* What a Run method may return as its first result.
Results == {0, 2}

----------------------------------------------------------------------------
(* The state machine. *)

Init ==
    /\ rules = NewRules
    /\ err = "nil"
    /\ lastCall = [command |-> commandVersion, name |-> "version", arguments |-> ""]
    /\ nRules = 0
    /\ pc = "building"
    /\ argv = [cmd |-> <<>>, parseOK |-> TRUE, args |-> <<>>]
    /\ params = NoParams
    /\ calls = <<>>
    /\ stderr = <<>>
    /\ stdout = <<>>
    /\ exits = <<>>

Rule(command, name, arguments) ==
    /\ pc = "building"
    /\ rules' = RuleApply(rules, command, name, arguments)
    /\ err' = RuleErr(command)
    /\ lastCall' = [command |-> command, name |-> name, arguments |-> arguments]
    /\ nRules' = nRules + 1
    /\ UNCHANGED <<pc, argv, params, calls, stderr, stdout, exits>>

Run(a, result) ==
    /\ pc = "building"
    /\ LET o == RunOutcome(rules, a, result)
       IN  /\ pc' = o.pc
           /\ params' = o.params
           /\ calls' = o.calls
           /\ stderr' = o.stderr
           /\ stdout' = o.stdout
           /\ exits' = o.exits
    /\ argv' = a
    /\ UNCHANGED <<rules, err, lastCall, nRules>>

\* An application built from the commands of the tests and the
\* documentation, then run.
Next ==
    \/ \E command \in Commands, name \in Names, arguments \in Arguments :
          nRules < MaxRules /\ Rule(command, name, arguments)
    \/ \E a \in Argvs, result \in Results : Run(a, result)

Spec == Init /\ [][Next]_vars

\* An application with one command of any signature registered as add,
\* then run.
SigNext ==
    \/ \E command \in SigCommands :
          nRules = 0 /\ Rule(command, "add", "<key> <username> [<extra>]")
    \/ \E a \in SigArgvs, result \in Results : Run(a, result)

SpecSig == Init /\ [][SigNext]_vars

----------------------------------------------------------------------------
(* Properties.  The predicates below describe a command's signature in the *)
(* words of the documentation of Rule, not in the steps of its code.       *)

\* Some parameter but the last is not a string, or the last is neither a
\* string nor a []string.
BadParameter(c) ==
    \/ \E i \in 1..(Len(c.in) - 1) : c.in[i] # "string"
    \/ Len(c.in) >= 1 /\ c.in[Len(c.in)] \notin {"string", "[]string"}

\* There is a result and the first is not an int.
BadResult(c) == Len(c.out) >= 1 /\ c.out[1] # "int"

ValidCommand(c) == c.hasRun /\ ~BadParameter(c) /\ ~BadResult(c)

\* Run got as far as binding: a registered command, flags parsed.
Bound ==
    /\ pc # "building"
    /\ Len(argv.cmd) = 1
    /\ argv.cmd[1] \in DOMAIN rules
    /\ argv.parseOK

\* The token at position k of the command line, or the empty string.
TokenOrEmpty(k) ==
    IF k <= Len(argv.args) THEN StringValue(argv.args[k]) ELSE StringValue("")

\* C1: for every registered rule and every list of leftover tokens, Run
\* reaches the call of the entry point with every parameter bound, and a
\* position with no token is bound to the empty string.
C1_BindingTotal ==
    Bound =>
        LET r == rules[argv.cmd[1]]
        IN  /\ pc = "exited"
            /\ Len(calls) = 1
            /\ DOMAIN calls[1].params = 0..Len(r.method.in)
            /\ \A k \in 1..Len(r.method.in) :
                  /\ calls[1].params[k] # Invalid
                  /\ (k > Len(argv.args) /\ r.method.in[k] = "string")
                        => calls[1].params[k] = StringValue("")

\* C2: when Run has K >= 1 parameters, all strings, parameter k is bound to
\* token k when there is one and to the empty string otherwise; tokens
\* past K are discarded without error.
C2_StringParameters ==
    (Bound /\ Len(rules[argv.cmd[1]].method.in) >= 1
           /\ \A k \in 1..Len(rules[argv.cmd[1]].method.in) :
                 rules[argv.cmd[1]].method.in[k] = "string") =>
        /\ pc = "exited"
        /\ Len(calls) = 1
        /\ \A k \in 1..Len(rules[argv.cmd[1]].method.in) :
              calls[1].params[k] = TokenOrEmpty(k)

\* The rule Run dispatched to ends in a []string after N strings.
Variadic(r) == Len(r.method.in) >= 1 /\ r.method.in[Len(r.method.in)] = "[]string"

C4_ErrorPrecedence ==
    LET c == lastCall.command
    IN  /\ ~c.hasRun => err = "errRunMissing"
        /\ (c.hasRun /\ BadParameter(c)) => err = "errRunString"
        /\ (c.hasRun /\ ~BadParameter(c) /\ BadResult(c)) => err = "errRunReturnValue"

\* A command with a bad parameter and a bad result gets the parameter error.
C4_Witness ==
    /\ nRules = 1
    /\ lastCall.command.hasRun
    /\ BadParameter(lastCall.command)
    /\ BadResult(lastCall.command)
    /\ err = "errRunString"

\* C5: for a valid command Rule returns no error and stores under the name
\* a rule with the command's parameters, the slice flag set exactly when
\* the last parameter is a []string, the command and the usage arguments;
\* one such registration under a new name makes three rules.
C5_ValidRegistered ==
    ValidCommand(lastCall.command) =>
        LET c == lastCall.command
        IN  /\ err = "nil"
            /\ lastCall.name \in DOMAIN rules
            /\ rules[lastCall.name].command = c
            /\ rules[lastCall.name].method.in = c.in
            /\ rules[lastCall.name].method.out = c.out
            /\ rules[lastCall.name].slice
                  <=> (Len(c.in) >= 1 /\ c.in[Len(c.in)] = "[]string")
            /\ rules[lastCall.name].name = lastCall.name
            /\ rules[lastCall.name].arguments = lastCall.arguments
            /\ (nRules = 1 /\ lastCall.name \notin {"help", "version"})
                  => Cardinality(DOMAIN rules) = 3

\* A command shaped like runFull registered on a fresh application.
C5_Witness ==
    /\ nRules = 1
    /\ lastCall.command.hasRun
    /\ lastCall.command.in = <<"string", "string", "[]string">>
    /\ lastCall.command.out = <<"int">>
    /\ err = "nil"
    /\ rules[lastCall.name].slice
    /\ Cardinality(DOMAIN rules) = 3

\* C6: a successful registration under a name stores the new rule there,
\* replacing any rule of that name, and touches no other name; a failing
\* registration leaves the whole map as it was.
C6_LastRegistrationWins ==
    [][nRules' = nRules + 1 =>
          IF err' = "nil"
          THEN /\ DOMAIN rules' = DOMAIN rules \cup {lastCall'.name}
               /\ rules'[lastCall'.name].command = lastCall'.command
               /\ rules'[lastCall'.name].name = lastCall'.name
               /\ rules'[lastCall'.name].arguments = lastCall'.arguments
               /\ rules'[lastCall'.name].options = lastCall'.command.flags
               /\ \A m \in DOMAIN rules \ {lastCall'.name} : rules'[m] = rules[m]
          ELSE rules' = rules]_vars

\* A second registration replaced the built-in help by runFull while the
\* rule registered as add before it stayed.
C6_Witness ==
    /\ nRules = 2
    /\ err = "nil"
    /\ lastCall.name = "help"
    /\ lastCall.command = runFull
    /\ rules["help"].command = runFull
    /\ "add" \in DOMAIN rules

BuiltinHelp ==
    [command |-> commandHelp, method |-> [in |-> <<>>, out |-> <<>>],
     slice |-> FALSE, name |-> "help", options |-> {}, arguments |-> ""]

BuiltinVersion ==
    [command |-> commandVersion, method |-> [in |-> <<>>, out |-> <<>>],
     slice |-> FALSE, name |-> "version", options |-> {}, arguments |-> ""]

\* C7: after New the map holds exactly help and version, bound to the
\* built-in commands; a registration that fails or uses another name leaves
\* a built-in rule as it was, and a successful one under help or version
\* replaces it.
C7_Builtins ==
    /\ rules = [n \in {"help", "version"} |->
                   IF n = "help" THEN BuiltinHelp ELSE BuiltinVersion]
    /\ [][nRules' = nRules + 1 =>
             \A b \in {"help", "version"} :
                 IF lastCall'.name = b /\ err' = "nil"
                 THEN rules'[b].command = lastCall'.command
                 ELSE b \in DOMAIN rules => (b \in DOMAIN rules' /\ rules'[b] = rules[b])]_vars

\* After a successful registration as add and a failing one as help, both
\* built-in rules are as New left them.
C7_Witness ==
    /\ nRules = 2
    /\ err # "nil"
    /\ lastCall.name = "help"
    /\ "add" \in DOMAIN rules
    /\ rules["help"] = BuiltinHelp
    /\ rules["version"] = BuiltinVersion

\* C8: every Run ends in exactly one exit: with 1 and the usage when there
\* is no command token; with 1, an error line naming the token and the
\* usage when the token names no rule, and no call; otherwise, the flags
\* parsed, after exactly one call of the entry point, with its first
\* result, or 0 when it has none.
C8_ExitCode ==
    pc # "building" =>
        /\ Len(exits) = 1
        /\ Len(argv.cmd) = 0 =>
              /\ exits = <<1>>
              /\ calls = <<>>
              /\ Len(stderr) = 1 /\ stderr[1].kind = "usage"
        /\ (Len(argv.cmd) = 1 /\ argv.cmd[1] \notin DOMAIN rules) =>
              /\ exits = <<1>>
              /\ calls = <<>>
              /\ Len(stderr) = 2
              /\ stderr[1] = ErrorEvent(argv.cmd[1])
              /\ stderr[2].kind = "usage"
        /\ Bound =>
              /\ Len(calls) = 1
              /\ calls[1].name = argv.cmd[1]
              /\ exits[1] = IF Len(rules[argv.cmd[1]].method.out) > 0
                            THEN calls[1].rv[1] ELSE 0

\* The option the usage should show for a flag, chosen by the flag's kind.
OptionByKind(flag) ==
    IF flag.kind = "bool" THEN <<"-">> \o flag.Name
    ELSE IF flag.DefValue = <<>>
    THEN <<"-">> \o flag.Name \o <<"=", "<", "v", "a", "l", "u", "e", ">">>
    ELSE IF flag.kind = "int"
    THEN <<"-">> \o flag.Name \o <<"=", "<", "n", ">">>
    ELSE <<"-">> \o flag.Name \o <<"=", "\"">> \o flag.DefValue \o <<"\"">>

\* C9: a printed usage shows every flag of every rule with the placeholder
\* of its kind: none for a boolean flag, <n> for a numeric default, <value>
\* for an empty default, the quoted default otherwise.
C9_PlaceholderByKind ==
    \A i \in 1..Len(stderr) :
        stderr[i].kind = "usage" =>
            \A n \in DOMAIN rules :
                \A flag \in rules[n].options :
                    \E line \in stderr[i].lines :
                        line.rule = n /\ line.option = OptionByKind(flag)

\* C10: for every rule set the padding of every command line and of every
\* flag line is not negative, and printing the usage completes.
C10_PaddingNonNegative ==
    /\ \A n \in DOMAIN rules :
          /\ getRuleLength(rules) - Len(RuleString(rules[n])) >= 0
          /\ \A flag \in rules[n].options :
                getRuleLength(rules) - Len(Option(flag)) - 2 >= 0
    /\ (pc # "building" /\ Len(argv.cmd) = 0) => pc = "exited"

====
